---------------------------- MODULE Spec2Model ----------------------------
(***************************************************************************)
(* Kinetic Heart (Yurak3D): the hand-landmark classifier                   *)
(* (GestureHandler.processResult / isFist), the particle engine            *)
(* (HeartSystem) and the wiring of the two in main.js.                     *)
(*                                                                         *)
(* Numbers.  JavaScript numbers are modelled in fixed point with two       *)
(* decimals: the integer n stands for n/100 (1.0 is 100, 0.25 is 25,       *)
(* 0.92 is 92).  A product of two fixed-point numbers is divided by 100    *)
(* again (\div, rounding towards minus infinity); Math.sqrt and Math.hypot *)
(* are the integer square root.  Comparisons of two distances are made on  *)
(* the squares, which is exact.                                            *)
(*                                                                         *)
(* Particle counts.  One particle of the model stands for a block of 1000  *)
(* particles of the program: the constructor's currentCount of 3000 is 3,  *)
(* main.js's maxCount of 5000 is 5.                                        *)
(***************************************************************************)
EXTENDS Integers, Sequences, FiniteSets, TLC

\* 1.0 in fixed point
One == 10 * 10

Min(a, b) == IF a < b THEN a ELSE b

Max(a, b) == IF a > b THEN a ELSE b

RECURSIVE SqrtSearch(_, _, _)
SqrtSearch(n, lo, hi) ==
    IF lo >= hi THEN lo
    ELSE LET mid == (lo + hi + 1) \div 2
         IN  IF mid * mid <= n THEN SqrtSearch(n, mid, hi)
                               ELSE SqrtSearch(n, lo, mid - 1)

\* Math.sqrt on a non-negative integer: the largest r with r*r <= n
ISqrt(n) == SqrtSearch(n, 0, Min(n, 46340))

\* Math.hypot(dx, dy), in the unit of dx and dy
Hypot(dx, dy) == ISqrt(dx * dx + dy * dy)

\* the square of Math.hypot(dx, dy)
Hypot2(dx, dy) == dx * dx + dy * dy

(***************************************************************************)
(* GestureHandler: the classifier                                          *)
(***************************************************************************)

\* a landmark {x, y}; z is never read by the classifier
Pt(px, py) == [x |-> px, y |-> py]

\* rotationY: undefined, or a number (hundredths of a radian)
Undefined == [defined |-> FALSE, val |-> 0]

Num(v) == [defined |-> TRUE, val |-> v]

\* the state object processResult starts from, and main.js's initial state.gesture
IdleState == [type |-> "IDLE", strength |-> 0, rotationY |-> Undefined]

\* landmarks[i] of a JavaScript array is undefined at an index >= length
Has(hand, i) == i + 1 <= Len(hand)

At(hand, i) == hand[i + 1]

tips == <<8, 12, 16, 20>>

pips == <<6, 10, 14, 18>>

\* the landmark indices one call of isFist reads
FistIndices == {0} \cup {tips[i] : i \in 1..4} \cup {pips[i] : i \in 1..4}

\* isFist dereferences landmarks[k].x of every index it uses: a TypeError
\* when one of them is undefined
IsFistThrows(hand) == \E k \in FistIndices : ~Has(hand, k)

\* dTip < dPip for finger i (1..4)
Folded(hand, i) ==
    Hypot2(At(hand, tips[i]).x - At(hand, 0).x, At(hand, tips[i]).y - At(hand, 0).y)
      < Hypot2(At(hand, pips[i]).x - At(hand, 0).x, At(hand, pips[i]).y - At(hand, 0).y)

\* isFist on a hand that has every index it reads
IsFist(hand) == Cardinality({i \in 1..4 : Folded(hand, i)}) >= 3

\* (wrist.x - 0.5) * Math.PI * 2
RotationOf(wristX) == ((wristX - 50) * 628) \div One

TwoHandExpandOrPinch(lm, st) ==
    LET h1 == At(lm[1], 0)
        h2 == At(lm[2], 0)
        d2 == Hypot2(h1.x - h2.x, h1.y - h2.y)
        dist == Hypot(h1.x - h2.x, h1.y - h2.y)
        thumbTip == At(lm[1], 4)
        indexTip == At(lm[1], 8)
        p2 == Hypot2(thumbTip.x - indexTip.x, thumbTip.y - indexTip.y)
        pinch == Hypot(thumbTip.x - indexTip.x, thumbTip.y - indexTip.y)
    IN  IF 4 * d2 > One * One
        THEN [st EXCEPT !.type = "EXPAND", !.strength = (dist - 50) * 2]
        ELSE IF 16 * p2 > One * One
        THEN [st EXCEPT !.type = "EXPAND", !.strength = (pinch - 25) * 3]
        ELSE st

\* the expand branch for two hands: wrist-to-wrist distance
TwoHandExpand(lm, st) ==
    LET h1 == At(lm[1], 0)
        h2 == At(lm[2], 0)
        d2 == Hypot2(h1.x - h2.x, h1.y - h2.y)
        dist == Hypot(h1.x - h2.x, h1.y - h2.y)
    IN  IF 4 * d2 > One * One
        THEN [st EXCEPT !.type = "EXPAND", !.strength = (dist - 50) * 2]
        ELSE st

\* the expand branch for one hand: thumb tip to index tip
OneHandExpand(lm, st) ==
    LET thumbTip == At(lm[1], 4)
        indexTip == At(lm[1], 8)
        d2 == Hypot2(thumbTip.x - indexTip.x, thumbTip.y - indexTip.y)
        dist == Hypot(thumbTip.x - indexTip.x, thumbTip.y - indexTip.y)
    IN  IF 16 * d2 > One * One
        THEN [st EXCEPT !.type = "EXPAND", !.strength = (dist - 25) * 3]
        ELSE st

\* processResult raises a TypeError before it reaches onGestureUpdate
ProcessThrows(lm) ==
    /\ Len(lm) > 0
    /\ \/ ~Has(lm[1], 0)
       \/ IsFistThrows(lm[1])
       \/ Len(lm) > 1 /\ IsFistThrows(lm[2])

\* processResult read a landmark index at or past the length of its hand
ProcessReadsOutOfBounds(lm) == ProcessThrows(lm)

ExpandFirst(lm, st) ==
    LET ex == IF Len(lm) = 2 THEN TwoHandExpand(lm, st) ELSE OneHandExpand(lm, st)
    IN  IF ex.type = "EXPAND" THEN ex
        ELSE IF IsFist(lm[1]) \/ (Len(lm) > 1 /\ IsFist(lm[2]))
        THEN [st EXCEPT !.type = "CONTRACT", !.strength = One]
        ELSE st

\* the gesture part of processResult: the fist check, then the expand check
FistFirst(lm, st) ==
    IF IsFist(lm[1]) \/ (Len(lm) > 1 /\ IsFist(lm[2]))
    THEN [st EXCEPT !.type = "CONTRACT", !.strength = One]
    ELSE IF Len(lm) = 2 THEN TwoHandExpand(lm, st) ELSE OneHandExpand(lm, st)

\* the state object processResult hands to onGestureUpdate (lm: result.landmarks,
\* every hand complete)
ProcessResult(lm) ==
    IF Len(lm) = 0 THEN IdleState
    ELSE FistFirst(lm, [IdleState EXCEPT !.rotationY = Num(RotationOf(At(lm[1], 0).x))])


(***************************************************************************)
(* HeartSystem: the particle engine                                        *)
(***************************************************************************)

\* largest maxCount the constructor is called with
MaxMaxCount == 4

\* largest number of update calls in one behaviour
MaxSteps == 2

\* this.currentCount = 3000 of the constructor, in blocks of 1000 particles
InitialCount == 3

\* this.params.springStrength = 0.05
springStrength == 5

\* this.params.damping = 0.92
damping == 92

\* this.params.noiseStrength = 0.2
noiseStrength == 20

\* this.pulseSpeed = 1.0
pulseSpeed == 100

\* this.params.color1 = '#ff0055' and color2 = '#ff00ff', channels in 0..1
color1 == <<100, 0, 33>>

color2 == <<100, 0, 100>>

Zero3 == <<0, 0, 0>>

\* a x b of two fixed-point numbers
Mul(a, b) == (a * b) \div One

\* Math.sin of an angle in hundredths of a radian (Bhaskara's rational
\* approximation on a half turn, pi = 3.14)
SinHalf(a) == (One * 16 * a * (314 - a)) \div (5 * 314 * 314 - 4 * a * (314 - a))

Sin(a) == LET r == a % 628 IN IF r <= 314 THEN SinHalf(r) ELSE 0 - SinHalf(r - 314)

\* sin and cos of t = q quarter turns, as integers
SinQ(q) == <<0, 1, 0, -1>>[(q % 4) + 1]

CosQ(q) == <<1, 0, -1, 0>>[(q % 4) + 1]

\* getHeartPoint(t, scale) with t = q quarter turns and zr the Math.random()
\* draw behind z
getHeartPoint(q, scale, zr) ==
    LET x == 16 * SinQ(q) * SinQ(q) * SinQ(q) * One
        y == (13 * CosQ(q) - 5 * CosQ(2 * q) - 2 * CosQ(3 * q) - CosQ(4 * q)) * One
        z == Mul((zr - 50) * 10, scale)
    IN  <<Mul(x, scale), Mul(y, scale), z>>

\* the three Math.random() draws of one resetParticle call: q for t (quarter
\* turns), u for r = sqrt(u), zr for z
Samples == << [q |-> 0, u |-> 25, zr |-> 50], [q |-> 1, u |-> 81, zr |-> 75],
              [q |-> 2, u |-> 49, zr |-> 10] >>

\* the runs of Math.random() one initParticles call can see: under seed s,
\* particle i draws Samples[(i + s) mod 3]
Seeds == {0, 1}

SampleOf(seed, i) == Samples[((i + seed) % 3) + 1]

\* the point p of resetParticle after p.y += 2
HeartPointOf(s) ==
    LET p == getHeartPoint(s.q, ISqrt(s.u * One), s.zr)
    IN  <<p[1], p[2] + 2 * One, p[3]>>

\* Math.random() draws of the noise term of update: all three at 0.5 (no
\* noise), or a kick
NoiseCalm == <<50, 50, 50>>

NoiseKick == <<75, 25, 0>>

\* pulseScale of update at this.time = t
PulseScale(t) ==
    LET s1 == Sin(t * 3)
        s2 == Sin(t * 3 + 314)
    IN  One + (s1 * 5 * (One + Mul(s2, 50))) \div (One * One)

\* one axis of the gesture force of update
GestureForce(g, p, len, dt, k) ==
    IF g.type = "EXPAND"
    THEN IF len = 0 THEN 0
         ELSE Mul(Mul((p[k] * One) \div len, 50 * g.strength), dt)
    ELSE IF g.type = "CONTRACT"
    THEN 0 - Mul(Mul(p[k] * 5, g.strength), dt)
    ELSE 0

\* THREE.MathUtils.lerp
Lerp(a, b, t) == a + Mul(b - a, t)

StepParticleAway(p, h, v, g, dt, pulse, nz) ==
    LET len == ISqrt(p[1] * p[1] + p[2] * p[2] + p[3] * p[3])
        f == [k \in 1..3 |->
                Mul(p[k] - Mul(h[k], pulse), springStrength)
                + GestureForce(g, p, len, dt, k)
                + Mul(nz[k] - 50, noiseStrength)]
        nv == [k \in 1..3 |-> Mul(v[k] + f[k], damping)]
        speed == ISqrt(nv[1] * nv[1] + nv[2] * nv[2] + nv[3] * nv[3])
        tColor == Min(Mul(speed, 50), One)
    IN  [pos |-> <<p[1] + nv[1], p[2] + nv[2], p[3] + nv[3]>>,
         vel |-> <<nv[1], nv[2], nv[3]>>,
         col |-> <<Lerp(color1[1], color2[1], tColor),
                   Lerp(color1[2], color2[2], tColor),
                   Lerp(color1[3], color2[3], tColor)>>]

\* the body of update's loop for one particle: p, h, v are its position, home
\* and velocity, nz its three Math.random() draws
StepParticle(p, h, v, g, dt, pulse, nz) ==
    LET len == ISqrt(p[1] * p[1] + p[2] * p[2] + p[3] * p[3])
        f == [k \in 1..3 |->
                Mul(Mul(h[k], pulse) - p[k], springStrength)
                + GestureForce(g, p, len, dt, k)
                + Mul(nz[k] - 50, noiseStrength)]
        nv == [k \in 1..3 |-> Mul(v[k] + f[k], damping)]
        speed == ISqrt(nv[1] * nv[1] + nv[2] * nv[2] + nv[3] * nv[3])
        tColor == Min(Mul(speed, 50), One)
    IN  [pos |-> <<p[1] + nv[1], p[2] + nv[2], p[3] + nv[3]>>,
         vel |-> <<nv[1], nv[2], nv[3]>>,
         col |-> <<Lerp(color1[1], color2[1], tColor),
                   Lerp(color1[2], color2[2], tColor),
                   Lerp(color1[3], color2[3], tColor)>>]

\* geometry.drawRange: { start: 0, count: Infinity } of a new BufferGeometry,
\* or what setDrawRange(0, count) stored
DrawAll == [inf |-> TRUE, count |-> 0]

DrawCount(n) == [inf |-> FALSE, count |-> n]


(***************************************************************************)
(* State                                                                   *)
(***************************************************************************)
VARIABLES
    maxCount,      \* HeartSystem.maxCount
    currentCount,  \* HeartSystem.currentCount (the active count)
    posArray,      \* HeartSystem.posArray, particle index -> <<x, y, z>>
    targetArray,   \* HeartSystem.targetArray (home positions)
    velArray,      \* HeartSystem.velArray
    colorArray,    \* HeartSystem.colorArray
    time,          \* HeartSystem.time
    rotation,      \* HeartSystem.container.rotation.y
    drawRange,     \* HeartSystem.geometry.drawRange
    gesture,       \* main.js state.gesture
    landmarks,     \* result.landmarks of the frame given to processResult
    emitted,       \* what processResult passed to onGestureUpdate for that frame
    thrown,        \* the exception processResult raised on that frame
    initStage,     \* where GestureHandler.init() is: the await it is suspended at,
                   \* "listening" after addEventListener, "failed" in the catch
    landmarker,    \* GestureHandler.landmarker is set (not null)
    isReady,       \* GestureHandler.isReady
    looping,       \* a predict() call is scheduled with requestAnimationFrame
    op,            \* history: the operation performed last
    steps,         \* history: number of update calls so far
    stepGesture,   \* history: the gestureState argument of the update just made
    stepCount,     \* history: currentCount during the update just made
    countArg,      \* history: the argument of the setParticleCount call just made
    drawn,         \* history: number of particles the render just made drew
    lastProduced,  \* history: the last state the classifier produced
    resetSince,    \* history: resetSystem ran after the last classification
    snap,          \* history: the buffers at the last shrink of currentCount,
                   \* kept until currentCount has grown again
    frameTime      \* history: clock.getDelta() of every frame of a run at a steady
                   \* frame rate, 0 where the frame time is drawn per call

engineVars == <<maxCount, currentCount, posArray, targetArray, velArray, colorArray,
                time, rotation, drawRange>>

classifierVars == <<landmarks, emitted, thrown>>

visionVars == <<initStage, landmarker, isReady, looping>>

historyVars == <<op, steps, stepGesture, stepCount, countArg, drawn, lastProduced, resetSince, snap,
                 frameTime>>

vars == <<maxCount, currentCount, posArray, targetArray, velArray, colorArray,
          time, rotation, drawRange, gesture, landmarks, emitted, thrown,
          op, steps, stepGesture, stepCount, countArg, drawn, lastProduced, resetSince,
          snap, frameTime, initStage, landmarker, isReady, looping>>

Indices == 0..(maxCount - 1)

NoEmit == [called |-> FALSE, state |-> IdleState]

Emit(st) == [called |-> TRUE, state |-> st]

NoSnap == [active |-> FALSE, grown |-> FALSE, from |-> 0, low |-> 0, stepped |-> 0,
           pos |-> <<>>, vel |-> <<>>, col |-> <<>>]

(***************************************************************************)
(* HeartSystem operations                                                  *)
(***************************************************************************)

\* new HeartSystem(scene, m): the buffers are allocated at m, initParticles
\* fills them, the geometry keeps the draw range of a new BufferGeometry
Constructor(m) ==
    /\ maxCount = m
    /\ currentCount = InitialCount
    /\ \E seed \in Seeds :
          /\ posArray = [i \in 0..(m - 1) |-> HeartPointOf(SampleOf(seed, i))]
          /\ targetArray = [i \in 0..(m - 1) |-> HeartPointOf(SampleOf(seed, i))]
    /\ velArray = [i \in 0..(m - 1) |-> Zero3]
    /\ colorArray = [i \in 0..(m - 1) |-> Zero3]
    /\ time = 0
    /\ rotation = 0
    /\ drawRange = DrawAll

ResetIndicesActive == {i \in Indices : i < currentCount}

\* the indices initParticles resets: i < this.maxCount
ResetIndices == Indices

\* initParticles(): resetParticle(i) for every i < maxCount
initParticles ==
    /\ \E seed \in Seeds :
          /\ posArray' = [i \in Indices |-> IF i \in ResetIndices
                                            THEN HeartPointOf(SampleOf(seed, i))
                                            ELSE posArray[i]]
          /\ targetArray' = [i \in Indices |-> IF i \in ResetIndices
                                               THEN HeartPointOf(SampleOf(seed, i))
                                               ELSE targetArray[i]]
    /\ velArray' = [i \in Indices |-> IF i \in ResetIndices THEN Zero3 ELSE velArray[i]]
    /\ UNCHANGED <<maxCount, currentCount, colorArray, time, rotation, drawRange>>

\* setParticleCount(count)
setParticleCount(count) ==
    /\ currentCount' = Min(count, maxCount)
    /\ drawRange' = DrawCount(Min(count, maxCount))
    /\ UNCHANGED <<maxCount, posArray, targetArray, velArray, colorArray, time, rotation>>

LoopIndicesAll(count) == 0..(maxCount - 1)

\* the particle indices update's loop visits: i < this.currentCount
LoopIndices(count) == 0..(count - 1)

\* what update does to time, the position, velocity and color buffers and the
\* container rotation; nz are the Math.random() draws of the call.  At an
\* index past the buffers a typed array reads undefined and drops the write.
updateBuffers(dt, g, nz) ==
    LET t == time + Mul(dt, pulseSpeed)
        pulse == PulseScale(t)
        active == {i \in Indices : i \in LoopIndices(currentCount)}
        next == [i \in active |->
                    StepParticle(posArray[i], targetArray[i], velArray[i], g, dt, pulse, nz[i])]
    IN  /\ time' = t
        /\ posArray' = [i \in Indices |-> IF i \in active THEN next[i].pos ELSE posArray[i]]
        /\ velArray' = [i \in Indices |-> IF i \in active THEN next[i].vel ELSE velArray[i]]
        /\ colorArray' = [i \in Indices |-> IF i \in active THEN next[i].col ELSE colorArray[i]]
        /\ rotation' = IF g.rotationY.defined
                       THEN rotation + Mul(g.rotationY.val - rotation, 10)
                       ELSE rotation + Mul(dt, 10)

updateStoringTarget(dt, g, nz) ==
    /\ updateBuffers(dt, g, nz)
    /\ targetArray' = [i \in Indices |->
                          IF i \in LoopIndices(currentCount)
                          THEN <<Mul(targetArray[i][1], PulseScale(time + Mul(dt, pulseSpeed))),
                                 targetArray[i][2], targetArray[i][3]>>
                          ELSE targetArray[i]]
    /\ UNCHANGED <<maxCount, currentCount, drawRange>>

\* update(dt, gestureState)
update(dt, g, nz) ==
    /\ updateBuffers(dt, g, nz)
    /\ UNCHANGED <<maxCount, currentCount, targetArray, drawRange>>

\* the number of points one draw of the geometry reads: the renderer clips
\* drawRange to the position attribute
DrawnCount == IF drawRange.inf THEN maxCount ELSE Max(0, Min(drawRange.count, maxCount))


(***************************************************************************)
(* The engine on its own: any sequence of its public operations            *)
(***************************************************************************)

\* the arguments setParticleCount is called with
CountInputs == {0 - 1, 2, MaxMaxCount + 1}

\* the arguments update is called with: a frame time (clock.getDelta(): a 20 ms
\* frame or a 350 ms stall), a gesture state and the noise draws
StepInputs ==
    { [dt |-> 2, g |-> IdleState, kick |-> FALSE],
      [dt |-> 35, g |-> [type |-> "EXPAND", strength |-> 40, rotationY |-> Num(0 - 314)],
       kick |-> TRUE],
      [dt |-> 2, g |-> [type |-> "CONTRACT", strength |-> One, rotationY |-> Num(157)],
       kick |-> TRUE] }

NoiseOf(kick) == [i \in Indices |-> IF kick /\ i % 2 = 0 THEN NoiseKick ELSE NoiseCalm]

\* the GestureHandler as its constructor leaves it, init() suspended at its
\* first await
NotStarted ==
    /\ initStage = "fileset"
    /\ landmarker = FALSE
    /\ isReady = FALSE
    /\ looping = FALSE

QuietClassifier ==
    /\ NotStarted
    /\ gesture = IdleState
    /\ landmarks = <<>>
    /\ emitted = NoEmit
    /\ thrown = "none"
    /\ lastProduced = IdleState
    /\ resetSince = FALSE

QuietHistory ==
    /\ frameTime = 0
    /\ steps = 0
    /\ stepGesture = IdleState
    /\ stepCount = 0
    /\ countArg = 0
    /\ drawn = 0
    /\ snap = NoSnap

Init ==
    /\ \E m \in 0..MaxMaxCount : Constructor(m)
    /\ QuietClassifier
    /\ QuietHistory
    /\ op = "constructor"

\* the buffers as they are when currentCount shrinks to n
SnapAt(n) == [active |-> TRUE, grown |-> FALSE, from |-> currentCount, low |-> n,
              stepped |-> 0, pos |-> posArray, vel |-> velArray, col |-> colorArray]

\* a shrink takes a snapshot; the first call that does not shrink ends it
SnapAfterCount(n) ==
    IF n < currentCount THEN SnapAt(n)
    ELSE IF snap.active /\ ~snap.grown THEN [snap EXCEPT !.grown = TRUE]
    ELSE NoSnap

SnapAfterStep ==
    IF snap.active /\ ~snap.grown THEN [snap EXCEPT !.stepped = Min(@ + 1, 1)] ELSE NoSnap

SnapAfterRender == IF snap.active /\ ~snap.grown THEN snap ELSE NoSnap

SetActiveCount ==
    \E n \in CountInputs :
        /\ setParticleCount(n)
        /\ op' = "setParticleCount"
        /\ countArg' = n
        /\ snap' = SnapAfterCount(Min(n, maxCount))
        /\ stepGesture' = IdleState
        /\ stepCount' = 0
        /\ drawn' = 0
        /\ UNCHANGED <<gesture, classifierVars, steps, lastProduced, resetSince, frameTime, visionVars>>

Reset ==
    /\ initParticles
    /\ op' = "initParticles"
    /\ snap' = NoSnap
    /\ stepGesture' = IdleState
    /\ stepCount' = 0
    /\ countArg' = 0
    /\ drawn' = 0
    /\ UNCHANGED <<gesture, classifierVars, steps, lastProduced, resetSince, frameTime, visionVars>>

Step ==
    /\ steps < MaxSteps
    /\ \E in \in StepInputs :
          /\ update(in.dt, in.g, NoiseOf(in.kick))
          /\ stepGesture' = in.g
    /\ op' = "update"
    /\ steps' = steps + 1
    /\ stepCount' = currentCount
    /\ snap' = SnapAfterStep
    /\ countArg' = 0
    /\ drawn' = 0
    /\ UNCHANGED <<gesture, classifierVars, lastProduced, resetSince, frameTime, visionVars>>

\* BloomManager.render(): the composer draws the scene, the points with them
Render ==
    /\ op' = "render"
    /\ drawn' = DrawnCount
    /\ snap' = SnapAfterRender
    /\ stepGesture' = IdleState
    /\ stepCount' = 0
    /\ countArg' = 0
    /\ UNCHANGED <<engineVars, gesture, classifierVars, steps, lastProduced, resetSince, frameTime, visionVars>>

Next == SetActiveCount \/ Reset \/ Step \/ Render

Spec == Init /\ [][Next]_vars


(***************************************************************************)
(* Claims about the engine (specification Spec)                            *)
(***************************************************************************)

\* C3: setParticleCount(n) clamps at both ends: after the call currentCount is
\* max(0, min(n, maxCount)), for every integer n.
C3_ClampsBothEnds ==
    op = "setParticleCount" => currentCount = Max(0, Min(countArg, maxCount))

\* C5: currentCount <= maxCount in every state, so the loop of update never
\* runs to an index at or past maxCount.
C5_ActiveWithinMax ==
    /\ currentCount <= maxCount
    /\ op = "update" => stepCount <= maxCount

\* C6: at every render the draw range of the geometry is [0, currentCount): no
\* particle at an index >= currentCount is drawn.
C6_DrawRangeIsActive ==
    op = "render" => drawn <= Max(0, currentCount)

\* C8: initParticles is total: right after it every index below maxCount has
\* position = home and velocity = 0, and currentCount is what it was.
C8_ResetIsTotal ==
    [][op' = "initParticles" =>
          /\ currentCount' = currentCount
          /\ \A i \in 0..(maxCount' - 1) :
                posArray'[i] = targetArray'[i] /\ velArray'[i] = Zero3]_vars

\* C8 witness: a reset of an engine that has stepped (colors written) while
\* some particles were inactive
C8_Witness ==
    /\ op = "initParticles"
    /\ steps >= 1
    /\ 0 < currentCount /\ currentCount < maxCount
    /\ colorArray[0] # Zero3

\* C9: only initParticles writes targetArray: update, setParticleCount and
\* render leave every home position as it was.
C9_HomeOnlyByReset ==
    [][op' # "initParticles" => targetArray' = targetArray]_vars

\* C9 witness: an update has moved a particle away from its home
C9_Witness ==
    /\ op = "update"
    /\ steps = MaxSteps
    /\ \E i \in Indices : posArray[i] # targetArray[i] /\ velArray[i] # Zero3

\* the buffer entries of index i are those of the snapshot
SameAsSnap(i) ==
    /\ posArray[i] = snap.pos[i]
    /\ velArray[i] = snap.vel[i]
    /\ colorArray[i] = snap.col[i]

\* C10: setParticleCount writes no buffer entry, update writes no position,
\* velocity or color at an index >= currentCount; hence from a shrink of
\* currentCount, through any updates, to the call that grows it again, the
\* entries at and above the shrunken count stay what they were at the shrink.
C10_FrozenNotCleared ==
    /\ [][/\ op' = "setParticleCount" =>
                /\ posArray' = posArray /\ targetArray' = targetArray
                /\ velArray' = velArray /\ colorArray' = colorArray
          /\ op' = "update" =>
                \A i \in Indices : i >= currentCount =>
                    /\ posArray'[i] = posArray[i]
                    /\ velArray'[i] = velArray[i]
                    /\ colorArray'[i] = colorArray[i]]_vars
    /\ [](snap.active => \A i \in Indices : i >= snap.low => SameAsSnap(i))

\* C10 witness: shrunk from n to m after a step had stirred particle m, stepped
\* again, grown back to n: particle m is as at the shrink, particle 0 is not
C10_Witness ==
    /\ op = "setParticleCount"
    /\ snap.active /\ snap.grown /\ snap.stepped >= 1
    /\ currentCount = snap.from
    /\ 1 <= snap.low /\ snap.low < snap.from /\ snap.from <= maxCount
    /\ velArray[snap.low] # Zero3
    /\ posArray[0] # snap.pos[0]


(***************************************************************************)
(* The classifier on its own: one frame of landmarks, processed once       *)
(***************************************************************************)

\* a hand of 21 landmarks: wrist w, the four PIP joints 0.20 above the wrist,
\* the four finger tips reach[k] above it, the thumb tip at thumb, every
\* other landmark on the wrist
MkHand(w, reach, thumb) ==
    [j \in 1..21 |->
        IF j - 1 = 4 THEN thumb
        ELSE IF \E k \in 1..4 : pips[k] = j - 1 THEN Pt(w.x, w.y + 20)
        ELSE IF \E k \in 1..4 : tips[k] = j - 1
             THEN Pt(w.x, w.y + reach[CHOOSE k \in 1..4 : tips[k] = j - 1])
        ELSE w]

Wrists == { Pt(0, 0), Pt(30, 40), Pt(50, 50), Pt(100, 60) }

\* finger tips nearer than, as far as, or farther than the PIP joints
Reaches == { <<a, b, c, d>> : a \in {10, 20, 40}, b \in {10, 40}, c \in {10, 40},
                              d \in {10, 40} }

ThumbsOf(w) == { w, Pt(w.x, w.y + 15), Pt(100 - w.x, 0) }

FirstHands == UNION { { MkHand(w, r, t) : r \in Reaches, t \in ThumbsOf(w) } : w \in Wrists }

SecondHands ==
    { MkHand(w, r, w) : w \in Wrists,
                        r \in { <<10, 10, 10, 10>>, <<40, 10, 10, 10>>,
                                <<20, 10, 10, 40>>, <<40, 40, 40, 40>> } }

\* a fist and an open hand, and what is left of them when the detector
\* delivers fewer points
SampleHands == { MkHand(Pt(50, 50), <<10, 10, 10, 10>>, Pt(50, 50)),
                 MkHand(Pt(0, 0), <<40, 40, 40, 40>>, Pt(100, 0)) }

ShortHands == { SubSeq(h, 1, n) : h \in SampleHands, n \in {0, 5, 9, 20} }

\* result.landmarks of the frames the classifier is run on
Frames ==
    { <<>> }
    \cup { <<h>> : h \in FirstHands \cup ShortHands }
    \cup { <<h1, h2>> : h1 \in FirstHands, h2 \in SecondHands }
    \cup { <<h1, h2>> : h1 \in SampleHands, h2 \in ShortHands }
    \cup { <<h1, h2>> : h1 \in ShortHands, h2 \in SampleHands }

processResultNotStored(lm) ==
    IF ProcessThrows(lm)
    THEN /\ thrown' = "TypeError"
         /\ emitted' = NoEmit
         /\ UNCHANGED <<gesture, lastProduced, resetSince>>
    ELSE /\ thrown' = "none"
         /\ emitted' = Emit(ProcessResult(lm))
         /\ gesture' = gesture
         /\ lastProduced' = ProcessResult(lm)
         /\ resetSince' = FALSE

\* processResult(result) with main.js's callback as onGestureUpdate: the state
\* is stored in state.gesture, unless a TypeError ends the call before
processResult(lm) ==
    IF ProcessThrows(lm)
    THEN /\ thrown' = "TypeError"
         /\ emitted' = NoEmit
         /\ UNCHANGED <<gesture, lastProduced, resetSince>>
    ELSE /\ thrown' = "none"
         /\ emitted' = Emit(ProcessResult(lm))
         /\ gesture' = ProcessResult(lm)
         /\ lastProduced' = ProcessResult(lm)
         /\ resetSince' = FALSE

ClassifierInit ==
    /\ landmarks \in Frames
    /\ Constructor(0)
    /\ gesture = IdleState
    /\ emitted = NoEmit
    /\ thrown = "none"
    /\ lastProduced = IdleState
    /\ resetSince = FALSE
    /\ initStage = "listening"
    /\ landmarker = TRUE
    /\ isReady = TRUE
    /\ looping = TRUE
    /\ QuietHistory
    /\ op = "detectForVideo"

Classify ==
    /\ op = "detectForVideo"
    /\ ~ProcessThrows(landmarks)
    /\ processResult(landmarks)
    /\ op' = "processResult"
    /\ UNCHANGED <<engineVars, landmarks, steps, stepGesture, stepCount, countArg, drawn, snap, frameTime, visionVars>>

ClassifyFails ==
    /\ op = "detectForVideo"
    /\ ProcessThrows(landmarks)
    /\ processResult(landmarks)
    /\ op' = "processResult"
    /\ UNCHANGED <<engineVars, landmarks, steps, stepGesture, stepCount, countArg, drawn, snap, frameTime, visionVars>>

ClassifierNext == Classify \/ ClassifyFails

ClassifierSpec == ClassifierInit /\ [][ClassifierNext]_vars

(***************************************************************************)
(* Claims about the classifier (specification ClassifierSpec)              *)
(***************************************************************************)

\* every hand of the frame has the 21 landmarks of a detected hand
Complete(lm) == \A h \in 1..Len(lm) : Len(lm[h]) >= 21

\* the squared planar distance of landmarks a and b of a hand
Dist2(hand, a, b) ==
    (hand[a + 1].x - hand[b + 1].x) * (hand[a + 1].x - hand[b + 1].x)
    + (hand[a + 1].y - hand[b + 1].y) * (hand[a + 1].y - hand[b + 1].y)

\* the fist test as the specification words it: at least three of the four
\* fingers have the tip nearer to the wrist than the PIP joint
PassesFistTest(hand) ==
    \E S \in SUBSET { <<8, 6>>, <<12, 10>>, <<16, 14>>, <<20, 18>> } :
        /\ Cardinality(S) >= 3
        /\ \A f \in S : Dist2(hand, f[1], 0) < Dist2(hand, f[2], 0)

\* C1: with one or two complete hands, if hand 0 passes the fist test, or hand
\* 1 does, the state given to onGestureUpdate is CONTRACT with strength 1.0,
\* whatever the wrist and thumb-index distances are.
C1_FistBeforeExpand ==
    ( /\ op = "processResult"
      /\ Len(landmarks) \in {1, 2}
      /\ Complete(landmarks)
      /\ \E h \in 1..Len(landmarks) : PassesFistTest(landmarks[h]) )
    => ( /\ emitted.called
         /\ emitted.state.type = "CONTRACT"
         /\ emitted.state.strength = One )

\* C1 witness: two hands more than 0.5 apart, only the second a fist, CONTRACT
C1_Witness ==
    /\ op = "processResult"
    /\ Len(landmarks) = 2
    /\ Complete(landmarks)
    /\ ~PassesFistTest(landmarks[1])
    /\ PassesFistTest(landmarks[2])
    /\ 4 * Hypot2(landmarks[1][1].x - landmarks[2][1].x,
                  landmarks[1][1].y - landmarks[2][1].y) > One * One
    /\ emitted.called
    /\ emitted.state.type = "CONTRACT"

\* C2: every state given to onGestureUpdate has 0 <= strength <= 1.
C2_StrengthInUnitInterval ==
    emitted.called => (0 <= emitted.state.strength /\ emitted.state.strength <= One)

\* C4: on a frame with a hand of fewer landmarks than the classifier indexes,
\* processResult ends with InvalidLandmarkSet, reads no index at or past the
\* length of a hand, and delivers no EXPAND or CONTRACT.
C4_InvalidLandmarkSet ==
    ( /\ op = "processResult"
      /\ ~Complete(landmarks) )
    => ( /\ thrown = "InvalidLandmarkSet"
         /\ ~ProcessReadsOutOfBounds(landmarks)
         /\ (emitted.called => emitted.state.type = "IDLE") )


(***************************************************************************)
(* main.js: the engine, the classifier callback, the GUI and the frame     *)
(* loop                                                                    *)
(***************************************************************************)

\* new HeartSystem(scene, 5000), in blocks of 1000 particles
AppMaxCount == 5

\* config.particleCount = 3000, in blocks of 1000 particles
AppParticleCount == 3

\* the frames the hand landmarker delivers to predict: no hand, a fist, an
\* open hand with the thumb far from the index tip, a hand cut short
AppFrames ==
    { <<>>,
      << MkHand(Pt(50, 50), <<10, 10, 10, 10>>, Pt(50, 50)) >>,
      << MkHand(Pt(0, 0), <<40, 40, 40, 40>>, Pt(100, 0)) >>,
      << SubSeq(MkHand(Pt(50, 50), <<10, 10, 10, 10>>, Pt(50, 50)), 1, 5) >> }

\* the values the particleCount slider hands to setParticleCount (1000..5000)
GuiCounts == {1}

\* clock.getDelta() and the noise draws of one frame
FrameInputs == { [dt |-> 2, kick |-> FALSE], [dt |-> 35, kick |-> TRUE] }

\* the state once main.js has run to its end: the engine constructed and
\* setParticleCount(config.particleCount) called, state.gesture idle
AppInit ==
    /\ maxCount = AppMaxCount
    /\ currentCount = Min(AppParticleCount, AppMaxCount)
    /\ drawRange = DrawCount(Min(AppParticleCount, AppMaxCount))
    /\ \E seed \in Seeds :
          /\ posArray = [i \in 0..(AppMaxCount - 1) |-> HeartPointOf(SampleOf(seed, i))]
          /\ targetArray = [i \in 0..(AppMaxCount - 1) |-> HeartPointOf(SampleOf(seed, i))]
    /\ velArray = [i \in 0..(AppMaxCount - 1) |-> Zero3]
    /\ colorArray = [i \in 0..(AppMaxCount - 1) |-> Zero3]
    /\ time = 0
    /\ rotation = 0
    /\ QuietClassifier
    /\ QuietHistory
    /\ op = "setup"

\* the awaits of init(), all inside its try block
InitStages == <<"fileset", "landmarker", "camera">>

\* this.landmarker after the await at stage st has resolved
LandmarkerAfter(st) == IF st = "landmarker" THEN TRUE ELSE landmarker

\* the step of init() after the await at stage st has resolved
StageAfter(st) ==
    IF st = "fileset" THEN "landmarker"
    ELSE IF st = "landmarker" THEN "camera"
    ELSE "listening"

\* what the init actions do to the history variables
InitHistory ==
    /\ snap' = NoSnap
    /\ stepGesture' = IdleState
    /\ stepCount' = 0
    /\ countArg' = 0
    /\ drawn' = 0
    /\ UNCHANGED <<engineVars, gesture, classifierVars, steps, lastProduced, resetSince,
                   frameTime>>

\* an await of init() resolves: forVisionTasks, createFromOptions (the
\* landmarker is stored), getUserMedia (the loadeddata listener is added)
InitProceeds ==
    /\ \E k \in 1..3 :
          /\ initStage = InitStages[k]
          /\ initStage' = StageAfter(InitStages[k])
          /\ landmarker' = LandmarkerAfter(InitStages[k])
    /\ op' = "init"
    /\ InitHistory
    /\ UNCHANGED <<isReady, looping>>

\* an await of init() rejects: the catch block logs and reports, nothing of
\* the handler changes
InitFails ==
    /\ \E k \in 1..3 : initStage = InitStages[k]
    /\ initStage' = "failed"
    /\ op' = "initFailed"
    /\ InitHistory
    /\ UNCHANGED <<landmarker, isReady, looping>>

ListenerAddedAnyway == initStage \in {"listening", "failed"}

\* the loadeddata listener has been added to the video element: the last
\* statement of the try block
ListenerAdded == initStage = "listening"

\* the loadeddata listener: isReady is set and predict() runs for the first
\* time, which schedules itself and classifies the first frame (currentTime
\* differs from lastVideoTime = -1) unless the landmarker is null
LoadedData ==
    /\ ListenerAdded
    /\ ~isReady
    /\ isReady' = TRUE
    /\ IF landmarker
       THEN /\ looping' = TRUE
            /\ \E lm \in AppFrames :
                  /\ landmarks' = lm
                  /\ processResult(lm)
       ELSE UNCHANGED <<looping, gesture, landmarks, emitted, thrown, lastProduced, resetSince>>
    /\ op' = "loadeddata"
    /\ UNCHANGED <<engineVars, steps, stepGesture, stepCount, countArg, drawn, snap, frameTime,
                   initStage, landmarker>>

\* predict(), called back by requestAnimationFrame: a new video frame is
\* detected and classified
Predict ==
    /\ looping
    /\ landmarker
    /\ \E lm \in AppFrames :
        /\ landmarks' = lm
        /\ processResult(lm)
        /\ op' = "processResult"
        /\ UNCHANGED <<engineVars, steps, stepGesture, stepCount, countArg, drawn, snap, frameTime, visionVars>>

\* resetSystem(): the GUI's reset button
ResetSystem ==
    /\ initParticles
    /\ gesture' = IdleState
    /\ resetSince' = TRUE
    /\ op' = "resetSystem"
    /\ snap' = NoSnap
    /\ stepGesture' = IdleState
    /\ stepCount' = 0
    /\ countArg' = 0
    /\ drawn' = 0
    /\ UNCHANGED <<classifierVars, steps, lastProduced, frameTime, visionVars>>

\* the particleCount slider
GuiParticleCount ==
    \E v \in GuiCounts :
        /\ setParticleCount(v)
        /\ op' = "setParticleCount"
        /\ countArg' = v
        /\ snap' = NoSnap
        /\ stepGesture' = IdleState
        /\ stepCount' = 0
        /\ drawn' = 0
        /\ UNCHANGED <<gesture, classifierVars, steps, lastProduced, resetSince, frameTime, visionVars>>

\* animate(): heartSystem.update(delta, state.gesture), then bloomManager.render()
Animate ==
    /\ steps < MaxSteps
    /\ \E in \in FrameInputs : update(in.dt, gesture, NoiseOf(in.kick))
    /\ stepGesture' = gesture
    /\ stepCount' = currentCount
    /\ drawn' = IF drawRange'.inf THEN maxCount ELSE Max(0, Min(drawRange'.count, maxCount))
    /\ op' = "animate"
    /\ steps' = steps + 1
    /\ snap' = NoSnap
    /\ countArg' = 0
    /\ UNCHANGED <<gesture, classifierVars, lastProduced, resetSince, frameTime, visionVars>>

AppNext ==
    \/ InitProceeds
    \/ InitFails
    \/ LoadedData
    \/ Predict
    \/ ResetSystem
    \/ GuiParticleCount
    \/ Animate

AppSpec == AppInit /\ [][AppNext]_vars

(***************************************************************************)
(* Claims about the wiring (specification AppSpec)                         *)
(***************************************************************************)

\* C7 as claimed: every update call of the frame loop receives the state the
\* classifier produced last (the initial idle state before the first one).
C7_StepGetsLastClassification ==
    op = "animate" => stepGesture = lastProduced

\* C7 as amended: every update call of the frame loop receives the state the
\* classifier produced last, or, when resetSystem ran after that
\* classification, the idle state resetSystem stored.
C7_StepGetsLastWritten ==
    op = "animate" => stepGesture = (IF resetSince THEN IdleState ELSE lastProduced)

\* C7 witness: a frame that follows a reset that followed a classification
\* other than idle
C7_Witness ==
    /\ op = "animate"
    /\ resetSince
    /\ lastProduced.type # "IDLE"
    /\ stepGesture = IdleState
    /\ steps = MaxSteps

\* C13: when init() has failed at any of its three awaits the app is in demo
\* mode: no predict() call is scheduled, onGestureUpdate has not been invoked,
\* state.gesture is the idle state with rotationY undefined and so is the
\* state every update call of the frame loop receives; and a predict() call
\* is scheduled only when the landmarker exists and loadeddata has fired.
C13_DemoModeAfterFailedInit ==
    /\ initStage = "failed"
        => /\ ~looping
           /\ ~emitted.called
           /\ thrown = "none"
           /\ gesture = IdleState
           /\ ~gesture.rotationY.defined
           /\ op = "animate" => stepGesture = IdleState
    /\ looping => landmarker /\ isReady

\* C13 witness: getUserMedia was refused after the landmarker had been
\* created, and the frame loop has run since, spinning the heart idly
C13_Witness ==
    /\ initStage = "failed"
    /\ landmarker
    /\ op = "animate"
    /\ steps = MaxSteps
    /\ stepGesture = IdleState
    /\ rotation > 0


(***************************************************************************)
(* C12: the expand decision (specification ClassifierSpec)                 *)
(***************************************************************************)

\* the squared planar distance of the wrists of the two hands of a frame
WristDist2(lm) ==
    (lm[1][1].x - lm[2][1].x) * (lm[1][1].x - lm[2][1].x)
    + (lm[1][1].y - lm[2][1].y) * (lm[1][1].y - lm[2][1].y)

\* type and strength as the claim gives them for a frame without a fist: the
\* measure is the wrist distance with two hands (threshold 0.5, gain 2), the
\* thumb-index distance with one hand (threshold 0.25, gain 3)
ExpectedExpand(lm) ==
    IF Len(lm) = 2 /\ 4 * WristDist2(lm) > 10000
    THEN [type |-> "EXPAND", strength |-> (ISqrt(WristDist2(lm)) - 50) * 2]
    ELSE IF Len(lm) = 1 /\ 16 * Dist2(lm[1], 4, 8) > 10000
    THEN [type |-> "EXPAND", strength |-> (ISqrt(Dist2(lm[1], 4, 8)) - 25) * 3]
    ELSE [type |-> "IDLE", strength |-> 0]

\* C12: when no present hand is a fist, the state is EXPAND with strength
\* (d - 0.5) * 2 iff two hands have wrist distance d > 0.5, EXPAND with strength
\* (d - 0.25) * 3 iff the one hand has thumb-index distance d > 0.25, and IDLE
\* with strength 0 in every other case (d at the threshold, no hand).
C12_ExpandByHandCount ==
    ( /\ op = "processResult"
      /\ Complete(landmarks)
      /\ \A h \in 1..Len(landmarks) : ~PassesFistTest(landmarks[h]) )
    => ( /\ emitted.called
         /\ emitted.state.type = ExpectedExpand(landmarks).type
         /\ emitted.state.strength = ExpectedExpand(landmarks).strength )

\* C12 witness: two open hands with the wrists exactly 0.5 apart, the thumb of
\* hand 0 far from its index tip: IDLE
C12_Witness ==
    /\ op = "processResult"
    /\ Len(landmarks) = 2
    /\ Complete(landmarks)
    /\ \A h \in 1..2 : ~PassesFistTest(landmarks[h])
    /\ 4 * WristDist2(landmarks) = 10000
    /\ 16 * Dist2(landmarks[1], 4, 8) > 10000
    /\ emitted.called
    /\ emitted.state.type = "IDLE"
    /\ emitted.state.strength = 0


(***************************************************************************)
(* The engine left alone: update with the idle gesture and no noise, at a  *)
(* steady frame rate, and the reset button                                 *)
(***************************************************************************)

MaxCalmSteps == 40

\* clock.getDelta() of a run: 20 ms frames, 70 ms frames, 350 ms frames
CalmFrameTimes == {2, 7, 35}

\* Math.random() - 0.5 = 0 in every axis of every particle: the noise term of
\* update is 0, as it is with params.noiseStrength = 0
NoNoise == [i \in Indices |-> NoiseCalm]

CalmInit ==
    /\ \E m \in 0..MaxMaxCount : Constructor(m)
    /\ QuietClassifier
    /\ frameTime \in CalmFrameTimes
    /\ steps = 0
    /\ stepGesture = IdleState
    /\ stepCount = 0
    /\ countArg = 0
    /\ drawn = 0
    /\ snap = NoSnap
    /\ op = "constructor"

\* update(delta, { type: 'IDLE', strength: 0 })
CalmStep ==
    /\ steps < MaxCalmSteps
    /\ update(frameTime, IdleState, NoNoise)
    /\ stepGesture' = IdleState
    /\ op' = "update"
    /\ steps' = steps + 1
    /\ stepCount' = currentCount
    /\ snap' = NoSnap
    /\ countArg' = 0
    /\ drawn' = 0
    /\ UNCHANGED <<gesture, classifierVars, lastProduced, resetSince, frameTime, visionVars>>

CalmNext == CalmStep \/ Reset

CalmSpec == CalmInit /\ [][CalmNext]_vars

(***************************************************************************)
(* C11: the spring alone (specification CalmSpec)                          *)
(***************************************************************************)

Abs(a) == IF a < 0 THEN 0 - a ELSE a

\* the particles update moves
Active == {i \in Indices : i < currentCount}

\* the squared distance of a position p to the pulsed home target
\* home * pulseScale at this.time = t: twice the spring energy per unit of
\* spring strength
SpringEnergy(p, home, t) ==
    (Mul(home[1], PulseScale(t)) - p[1]) * (Mul(home[1], PulseScale(t)) - p[1])
    + (Mul(home[2], PulseScale(t)) - p[2]) * (Mul(home[2], PulseScale(t)) - p[2])
    + (Mul(home[3], PulseScale(t)) - p[3]) * (Mul(home[3], PulseScale(t)) - p[3])

\* C11 as claimed, its part a finite run can refute: with the idle gesture and
\* no noise the spring energy of an active particle settles monotonically,
\* that is, no update call leaves a particle farther from the pulsed home
\* target of that call than it was from the pulsed home target before it.
C11_EnergySettlesMonotonically ==
    [][ op' = "update"
        => \A i \in Active :
              SpringEnergy(posArray'[i], targetArray'[i], time')
                  <= SpringEnergy(posArray[i], targetArray[i], time) ]_vars

\* C11 as amended: with the idle gesture and no noise the particles never
\* diverge: after any number of update calls every coordinate of an active
\* particle is within 30% of its home coordinate, plus 0.1, of that home
\* coordinate.  (The pulsed target moves with this.time, so the distance to
\* it neither settles monotonically nor tends to 0.)
C11_NeverDiverges ==
    \A i \in Active : \A k \in 1..3 :
        One * Abs(posArray[i][k] - targetArray[i][k])
            <= 30 * Abs(targetArray[i][k]) + One * 10

\* C11 witness: ten idle, noise-free update calls in, a particle is away from
\* home and away from the pulsed target
C11_Witness ==
    /\ op = "update"
    /\ steps >= 10
    /\ \E i \in Active :
          /\ posArray[i] # targetArray[i]
          /\ SpringEnergy(posArray[i], targetArray[i], time) > 0

=============================================================================
